---------------------------- MODULE Spec2Model ----------------------------
(***************************************************************************)
(* The RDP file server of a3/src/RDP_Server.py as a state machine.         *)
(*                                                                         *)
(* The server is one thread of control.  It blocks in two places: in the   *)
(* serve loop's try_read_message (pc = "recv") and inside the reliable     *)
(* send primitive send_until_ack_in (pc = "wait").  Every action below is  *)
(* the code that runs between two such blocking points.  The peer, the     *)
(* network and the file system are the environment: they choose which      *)
(* datagram arrives, whether a wait times out, and which paths are files.  *)
(*                                                                         *)
(* a3/src/RDP_Protocol.py (Message, Connection, send_until_ack_in,         *)
(* try_read_message and the protocol constants) is modelled from the       *)
(* specification's sections 3, 4.1, 4.2 and 6.                             *)
(***************************************************************************)
EXTENDS Integers, Sequences, FiniteSets, TLC

VARIABLES
    conn,       \* Server.conn: None or the Connection
    pc,         \* "recv": blocked in try_read_message; "wait": blocked in
                \* send_until_ack_in; "exited": an exception left serve()
    message,    \* the argument of the latest _dispatch call
    out,        \* the message the reliable-send primitive is transmitting
    attempts,   \* transmissions of `out` made so far
    pending,    \* chunks the for loop of _process_get_request has not sent
    depth,      \* nesting depth of _dispatch (0: called by _serve_loop)
    raised,     \* the exception that left _serve_loop, "" if none
    log,        \* the log lines the latest step emitted
    event,      \* what the latest step was
    sent,       \* messages handed to the primitive for the latest Connection
    peer_acks,  \* ack numbers received since the latest Connection was made
    f_in,       \* _get_data_from_file: the file's content
    f_size,     \* _get_data_from_file: chunk_size
    f_out,      \* _get_data_from_file: the returned list
    f_called    \* whether _get_data_from_file has been called

vars == <<conn, pc, message, out, attempts, pending, depth, raised, log,
          event, sent, peer_acks, f_in, f_size, f_out, f_called>>

srv == <<conn, pc, message, out, attempts, pending, depth, raised, log,
         event, sent, peer_acks>>

chunkvars == <<f_in, f_size, f_out, f_called>>

\* Python's None.
None == [none |-> TRUE]

-----------------------------------------------------------------------------
(* Bounds of the model. *)

\* Inbound sequence numbers are drawn from 0..MaxSeqNo.
MaxSeqNo == 1

\* Inbound acknowledgment numbers are drawn from 0..MaxAckNo.
MaxAckNo == 1

\* A new Connection's first send sequence number is drawn from 0..MaxBaseSeq.
MaxBaseSeq == 0

\* The peer answers a SYN reply with another SYN only below this nesting.
MaxDepth == 1

\* _get_data_from_file is checked on files of up to MaxFileLen bytes ...
MaxFileLen == 4

\* ... and chunk sizes 1..MaxChunkSize.
MaxChunkSize == 3

-----------------------------------------------------------------------------
(* RDP_Protocol: constants.  The values are scaled down; the claims do not *)
(* depend on them.                                                         *)

DEFAULT_RETRY_THRESHOLD == 2

MAX_PAYLOAD_SIZE == 3

HTTP_CODE_LEN == 1

HTTP_OK_ENCODED == <<200>>

HTTP_FILE_NOT_FOUND_ENCODED == <<404>>

\* The address the server's own datagrams carry.
ServerAdr == "server"

\* The peers that can send datagrams to the server.
Addrs == {"A", "B"}

PacketTypes == {"SYN", "ACK", "APP", "FIN"}

-----------------------------------------------------------------------------
(* The file system: os.path.isfile and open(filename, 'rb').               *)

Bytes(n) == [i \in 1..n |-> i]

CHUNK == MAX_PAYLOAD_SIZE - HTTP_CODE_LEN

\* The regular files that exist, by path, with their contents.
FILES ==
    [p \in {"empty.bin", "one.bin", "two.bin", "odd.bin"} |->
        CASE p = "empty.bin" -> Bytes(0)
          [] p = "one.bin"   -> Bytes(CHUNK)
          [] p = "two.bin"   -> Bytes(2 * CHUNK)
          [] p = "odd.bin"   -> Bytes(CHUNK + 1)]

Paths == DOMAIN FILES \cup {"missing.txt"}

isfile(filename) == filename \in DOMAIN FILES

-----------------------------------------------------------------------------
(* RDP_Protocol: Message.                                                  *)

Message(t, seq, ack, data, adr) ==
    [packet_type |-> t, seq_no |-> seq, ack_no |-> ack, payload |-> data,
     src_adr |-> adr]

is_syn(m) == m.packet_type = "SYN"

is_ack_only(m) == m.packet_type = "ACK"

is_fin(m) == m.packet_type = "FIN"

\* The payload of an inbound message is kept as the text it decodes to.
get_payload_as_text(m) == m.payload

create_syn_message(seq, ack) == Message("SYN", seq, ack, <<>>, ServerAdr)

create_app_message(seq, ack, data) == Message("APP", seq, ack, data, ServerAdr)

create_fin_message(seq, ack) == Message("FIN", seq, ack, <<>>, ServerAdr)

\* Every well-formed datagram a peer can send.  Only an APP carries a path.
Inbound ==
    {Message(t, s, a, p, adr) :
        t \in PacketTypes \ {"APP"}, s \in 0..MaxSeqNo, a \in 0..MaxAckNo,
        p \in {""}, adr \in Addrs}
    \cup
    {Message("APP", s, a, p, adr) :
        s \in 0..MaxSeqNo, a \in 0..MaxAckNo, p \in Paths, adr \in Addrs}

-----------------------------------------------------------------------------
(* RDP_Protocol: Connection.                                               *)

Connection(remote_adr, remote_seq_no, base) ==
    [remote_adr |-> remote_adr, seq |-> base,
     last_index_received |-> remote_seq_no]

next_expected_index(c) == c.last_index_received + 1

increment_next_expected_index(c) ==
    [c EXCEPT !.last_index_received = @ + 1]

\* get_seq_and_increment returns c.seq and leaves the Connection at:
get_seq_and_increment(c) == [c EXCEPT !.seq = @ + 1]

-----------------------------------------------------------------------------
(* Server._get_data_from_file.                                             *)

Min(a, b) == IF a < b THEN a ELSE b

\* file.read(n) at offset pos of a binary file: up to n bytes, b'' at the end.
read(content, pos, n) == SubSeq(content, pos + 1, Min(pos + n, Len(content)))

\* The while loop: `chunk` was read and the file offset is pos.
RECURSIVE read_loop(_, _, _, _, _)
read_loop(content, pos, chunk_size, chunks, chunk) ==
    IF chunk # <<>>
    THEN read_loop(content, pos + Len(chunk), chunk_size,
                   Append(chunks, chunk),
                   read(content, pos + Len(chunk), chunk_size))
    ELSE chunks

\* Mutant: the loop runs while the chunk read is full, and the short chunk
\* that ends it (empty when the length is a multiple) is appended too.
_get_data_from_file_trailing(content, chunk_size) ==
    LET chunks == read_loop(content, 0, chunk_size, <<>>,
                            read(content, 0, chunk_size))
    IN  IF Len(content) % chunk_size = 0
        THEN Append(chunks, <<>>)
        ELSE chunks

\* Mutant: an empty file yields no chunk at all.
_get_data_from_file_no_empty(content, chunk_size) ==
    read_loop(content, 0, chunk_size, <<>>, read(content, 0, chunk_size))

_get_data_from_file(content, chunk_size) ==
    LET chunks == read_loop(content, 0, chunk_size, <<>>,
                            read(content, 0, chunk_size))
    IN  IF chunks = <<>> THEN << <<>> >> ELSE chunks

-----------------------------------------------------------------------------
(* How a piece of server code ends: blocked in the primitive, back in the  *)
(* serve loop, or with an exception that nothing catches.  `d` is the      *)
(* nesting depth of the _dispatch call the code runs in.                   *)

\* ack numbers the connected peer has sent, once m has arrived.
acks_with(m) ==
    IF conn # None /\ m.src_adr = conn.remote_adr
    THEN peer_acks \cup {m.ack_no}
    ELSE peer_acks

\* Reading an attribute of self.conn while it is None.
NoneTypeError == "AttributeError: 'NoneType' object has no attribute"

\* Reading self.conn.adr.
NoAdrError == "AttributeError: 'Connection' object has no attribute 'adr'"

\* An exception propagates: _serve_loop catches socket.timeout only, and
\* serve() re-raises after closing the socket.
Raise(exc, d, lines) ==
    /\ pc' = "exited"
    /\ raised' = exc
    /\ out' = None
    /\ attempts' = 0
    /\ pending' = <<>>
    /\ depth' = d
    /\ log' = lines
    /\ UNCHANGED <<conn, sent>>

\* Control returns to _serve_loop's next iteration with self.conn = c.
Return(c, lines) ==
    /\ pc' = "recv"
    /\ conn' = c
    /\ out' = None
    /\ attempts' = 0
    /\ pending' = <<>>
    /\ depth' = 0
    /\ log' = lines
    /\ UNCHANGED <<raised, sent>>

-----------------------------------------------------------------------------
(* Server._send_until_ack_in.                                              *)

\* Line 209: read self.conn.remote_adr, transmit msg for the first time and
\* block in send_until_ack_in.  c is self.conn, s the messages sent so far
\* and rest the chunks still to send.
_send_until_ack_in(c, msg, rest, s, d, lines) ==
    IF c = None
    THEN Raise(NoneTypeError, d, lines)
    ELSE /\ pc' = "wait"
         /\ conn' = c
         /\ out' = msg
         /\ attempts' = 1
         /\ pending' = rest
         /\ sent' = Append(s, msg)
         /\ depth' = d
         /\ log' = lines
         /\ UNCHANGED raised

\* Mutant: the Connection is kept when no acknowledgment came.
_send_until_ack_in_return_keep(ack) == conn

\* Lines 210-213: self.conn once the primitive has returned `ack`.
_send_until_ack_in_return(ack) == IF ack = None THEN None ELSE conn

\* Lines 57-59: the line _abandon_connection logs.
_abandon_connection(cause) ==
    <<"Client connectivity lost. Abandoning connection", cause>>

-----------------------------------------------------------------------------
(* Server._send_data, Server._close_connection, Server._process_get_request *)

\* Mutant: the sequence number is read and not advanced.
_send_data_stale_seq(c, data, rest, d, lines) ==
    IF Len(data) > MAX_PAYLOAD_SIZE
    THEN Raise("AssertionError", d, lines)
    ELSE IF c = None
    THEN Raise(NoneTypeError, d, lines)
    ELSE LET ack_no == c.last_index_received
             seq_no == c.seq
             msg    == create_app_message(seq_no, ack_no, data)
         IN  _send_until_ack_in(c, msg, rest, sent, d, lines)

\* Lines 162-168, with self.conn = c.
_send_data(c, data, rest, d, lines) ==
    IF Len(data) > MAX_PAYLOAD_SIZE
    THEN Raise("AssertionError", d, lines)
    ELSE IF c = None
    THEN Raise(NoneTypeError, d, lines)
    ELSE LET ack_no == c.last_index_received
             seq_no == c.seq
             msg    == create_app_message(seq_no, ack_no, data)
         IN  _send_until_ack_in(get_seq_and_increment(c), msg, rest, sent,
                                d, lines)

\* Mutant: the FIN reads the send sequence number and does not advance it.
_close_connection_stale_seq(c, d, lines) ==
    IF c = None
    THEN Return(None, lines \o <<"Cannot close connection">>)
    ELSE LET seq     == c.seq
             ack     == c.last_index_received
             fin_msg == create_fin_message(seq, ack)
         IN  _send_until_ack_in(c, fin_msg, <<>>, sent, d,
                                lines \o <<"Closing connection">>)

\* Lines 185-195, with self.conn = c: up to the FIN's transmission.
_close_connection(c, d, lines) ==
    IF c = None
    THEN Return(None, lines \o <<"Cannot close connection">>)
    ELSE LET seq     == c.seq
             ack     == c.last_index_received
             fin_msg == create_fin_message(seq, ack)
         IN  _send_until_ack_in(get_seq_and_increment(c), fin_msg, <<>>,
                                sent, d,
                                lines \o <<"Closing connection">>)

\* Mutant: the Connection is cleared only when the answer is a FIN.
_close_connection_return_fin_only(fin_ack_msg, lines) ==
    Return(IF fin_ack_msg = None THEN None
           ELSE IF ~is_fin(fin_ack_msg) THEN conn
           ELSE None,
           lines \o
           << IF fin_ack_msg = None
              THEN "No ACK received in response to FIN message"
              ELSE IF ~is_fin(fin_ack_msg)
              THEN "FIN message ACK was not itself a FIN message"
              ELSE "Received FIN_ACK message. Disconnecting" >>)

\* Lines 196-202: the primitive has returned fin_ack_msg.
_close_connection_return(fin_ack_msg, lines) ==
    Return(None,
           lines \o
           << IF fin_ack_msg = None
              THEN "No ACK received in response to FIN message"
              ELSE IF ~is_fin(fin_ack_msg)
              THEN "FIN message ACK was not itself a FIN message"
              ELSE "Received FIN_ACK message. Disconnecting" >>)

\* Lines 123-144: up to the first reply's transmission.
_process_get_request(m, d) ==
    IF conn = None
    THEN Raise("AssertionError", d, <<>>)
    ELSE LET filename == get_payload_as_text(m)
             c        == increment_next_expected_index(conn)
         IN  IF ~isfile(filename)
             THEN _send_data(c, HTTP_FILE_NOT_FOUND_ENCODED, <<>>, d,
                             <<"Received request", "No such file">>)
             ELSE LET chunk_size == MAX_PAYLOAD_SIZE - HTTP_CODE_LEN
                      chunks == _get_data_from_file(FILES[filename],
                                                    chunk_size)
                  IN  _send_data(c, HTTP_OK_ENCODED \o Head(chunks),
                                 Tail(chunks), d,
                                 <<"Received request", "Sending data">>)

\* Mutant: the result of _send_data is not tested.
_process_get_request_resume_ignores_loss(ack, c, lines) ==
    IF pending # <<>>
    THEN _send_data(c, HTTP_OK_ENCODED \o Head(pending), Tail(pending),
                    depth, lines)
    ELSE _close_connection(c, depth, lines)

\* Mutant: the Connection is left open after the last reply.
_process_get_request_resume_no_close(ack, c, lines) ==
    IF ack = None
    THEN Return(c, lines)
    ELSE IF pending # <<>>
    THEN _send_data(c, HTTP_OK_ENCODED \o Head(pending), Tail(pending),
                    depth, lines)
    ELSE Return(c, lines)

\* Mutant: a SYN in answer to a reply ends the transfer.
_process_get_request_resume_syn_abandons(ack, c, lines) ==
    IF ack = None \/ is_syn(ack)
    THEN Return(None, lines)
    ELSE IF pending # <<>>
    THEN _send_data(c, HTTP_OK_ENCODED \o Head(pending), Tail(pending),
                    depth, lines)
    ELSE _close_connection(c, depth, lines)

\* Lines 136-137 and 143-148: _send_data has returned `ack`, and self.conn
\* is c.
_process_get_request_resume(ack, c, lines) ==
    IF ack = None
    THEN Return(c, lines)
    ELSE IF pending # <<>>
    THEN _send_data(c, HTTP_OK_ENCODED \o Head(pending), Tail(pending),
                    depth, lines)
    ELSE _close_connection(c, depth, lines)

-----------------------------------------------------------------------------
(* Server._receive_connection and Server._dispatch.                        *)

\* Mutant: the SYN reply acknowledges the next expected sequence number.
_receive_connection_ack_next(syn, d) ==
    IF conn # None /\ conn.remote_adr # syn.src_adr
    THEN Raise("AssertionError", d, <<>>) /\ UNCHANGED peer_acks
    ELSE \E base \in 0..MaxBaseSeq :
           LET c      == Connection(syn.src_adr, syn.seq_no, base)
               ack_no == next_expected_index(c)
               seq_no == c.seq
               reply  == create_syn_message(seq_no, ack_no)
           IN  /\ _send_until_ack_in(
                      get_seq_and_increment(c), reply, <<>>, <<>>, d,
                      << IF conn # None
                         THEN "Received SYN message from already connected client"
                         ELSE "Connection request (SYN)",
                         "Using base sequence number" >>)
               /\ peer_acks' = {}

\* Mutant: a SYN from the connected peer keeps the Connection it has.
_receive_connection_keep(syn, d) ==
    IF conn # None /\ conn.remote_adr # syn.src_adr
    THEN Raise("AssertionError", d, <<>>) /\ UNCHANGED peer_acks
    ELSE \E base \in 0..MaxBaseSeq :
           LET c      == IF conn # None THEN conn
                         ELSE Connection(syn.src_adr, syn.seq_no, base)
               ack_no == c.last_index_received
               seq_no == c.seq
               reply  == create_syn_message(seq_no, ack_no)
           IN  /\ _send_until_ack_in(
                      get_seq_and_increment(c), reply, <<>>, <<>>, d,
                      << IF conn # None
                         THEN "Received SYN message from already connected client"
                         ELSE "Connection request (SYN)",
                         "Using base sequence number" >>)
               /\ peer_acks' = {}

\* Lines 103-119: up to the SYN reply's transmission.
_receive_connection(syn, d) ==
    IF conn # None /\ conn.remote_adr # syn.src_adr
    THEN Raise("AssertionError", d, <<>>) /\ UNCHANGED peer_acks
    ELSE \E base \in 0..MaxBaseSeq :
           LET c      == Connection(syn.src_adr, syn.seq_no, base)
               ack_no == c.last_index_received
               seq_no == c.seq
               reply  == create_syn_message(seq_no, ack_no)
           IN  /\ _send_until_ack_in(
                      get_seq_and_increment(c), reply, <<>>, <<>>, d,
                      << IF conn # None
                         THEN "Received SYN message from already connected client"
                         ELSE "Connection request (SYN)",
                         "Using base sequence number" >>)
               /\ peer_acks' = {}

\* Mutant: the address test lets every SYN through.
from_other_peer_non_syn(m) ==
    conn # None /\ ~is_syn(m) /\ conn.remote_adr # m.src_adr

\* Line 67: the message is not from the connected peer.
from_other_peer(m) == conn # None /\ conn.remote_adr # m.src_adr

\* Mutant: only an application message's sequence number is checked.
bad_sequence_app_only(m) ==
    m.packet_type = "APP" /\ m.seq_no # next_expected_index(conn)

\* Line 84: the message is not the next one the Connection expects.
bad_sequence(m) == m.seq_no # next_expected_index(conn)

\* Mutant: the application branch is tested before the test for a missing
\* Connection.
_dispatch_app_first(m, d) ==
    /\ message' = m
    /\ IF from_other_peer(m)
       THEN Raise(NoAdrError, d, <<>>) /\ peer_acks' = acks_with(m)
       ELSE IF is_syn(m)
       THEN _receive_connection(m, d)
       ELSE IF m.packet_type = "APP" /\ (conn = None \/ ~bad_sequence(m))
       THEN _process_get_request(m, d) /\ peer_acks' = acks_with(m)
       ELSE IF conn = None
       THEN /\ Return(None, <<"Received non-SYN message without a connection">>)
            /\ peer_acks' = acks_with(m)
       ELSE IF bad_sequence(m)
       THEN /\ Return(None, _abandon_connection("Bad sequence number"))
            /\ peer_acks' = acks_with(m)
       ELSE /\ Return(conn, <<"Failed to dispatch message">>)
            /\ peer_acks' = acks_with(m)

\* Lines 67-93, as far as the first blocking send.
_dispatch(m, d) ==
    /\ message' = m
    /\ IF from_other_peer(m)
       THEN \* line 70 reads self.conn.adr; a Connection has remote_adr,
            \* seq and last_index_received
            Raise(NoAdrError, d, <<>>) /\ peer_acks' = acks_with(m)
       ELSE IF is_syn(m)
       THEN _receive_connection(m, d)
       ELSE IF conn = None
       THEN /\ Return(None, <<"Received non-SYN message without a connection">>)
            /\ peer_acks' = acks_with(m)
       ELSE IF bad_sequence(m)
       THEN /\ Return(None, _abandon_connection("Bad sequence number"))
            /\ peer_acks' = acks_with(m)
       ELSE IF m.packet_type = "APP"
       THEN _process_get_request(m, d) /\ peer_acks' = acks_with(m)
       ELSE /\ Return(conn, <<"Failed to dispatch message">>)
            /\ peer_acks' = acks_with(m)

\* Mutant: every answer to the SYN reply is dispatched, a bare ACK too.
_dispatch_resume_always(ack, c, lines) ==
    IF ack # None
    THEN _dispatch(ack, depth + 1)
    ELSE /\ Return(c, lines)
         /\ peer_acks' = peer_acks
         /\ UNCHANGED message

\* Lines 73-78: _receive_connection has returned `ack`, and self.conn is c.
_dispatch_resume(ack, c, lines) ==
    IF ack # None /\ ~is_ack_only(ack)
    THEN _dispatch(ack, depth + 1)
    ELSE /\ Return(c, lines)
         /\ peer_acks' = (IF ack = None THEN peer_acks ELSE acks_with(ack))
         /\ UNCHANGED message

-----------------------------------------------------------------------------
(* The steps of the server.                                                *)

\* The primitive returns `ack` (a message, or None) to _send_until_ack_in,
\* which returns it to the code that sent `out`.
Resume(ack) ==
    LET c     == _send_until_ack_in_return(ack)
        lines == IF ack = None
                 THEN _abandon_connection("Maximum retries exceeded")
                 ELSE <<>>
    IN  CASE out.packet_type = "SYN" ->
                 _dispatch_resume(ack, c, lines)
          [] out.packet_type = "APP" ->
                 /\ _process_get_request_resume(ack, c, lines)
                 /\ peer_acks' = (IF ack = None THEN peer_acks
                                  ELSE acks_with(ack))
                 /\ UNCHANGED message
          [] out.packet_type = "FIN" ->
                 /\ _close_connection_return(ack, lines)
                 /\ peer_acks' = (IF ack = None THEN peer_acks
                                  ELSE acks_with(ack))
                 /\ UNCHANGED message

\* _serve_loop, lines 51-53: a datagram arrives at the top-level receive.
Receive ==
    /\ pc = "recv"
    /\ \E m \in Inbound : _dispatch(m, 0)
    /\ event' = "receive"
    /\ UNCHANGED chunkvars

\* Mutant: the top-level receive has a timeout without a Connection too.
Timeout_while_idle ==
    /\ pc = "recv"
    /\ Return(None, _abandon_connection("Connection timeout expired"))
    /\ event' = "timeout"
    /\ UNCHANGED <<message, peer_acks, chunkvars>>

\* _serve_loop, lines 51-55: the receive times out.  block is None, and the
\* receive waits for ever, when there is no Connection.
Timeout ==
    /\ pc = "recv"
    /\ conn # None
    /\ Return(None, _abandon_connection("Connection timeout expired"))
    /\ event' = "timeout"
    /\ UNCHANGED <<message, peer_acks, chunkvars>>

\* send_until_ack_in: a message from the destination address arrives within
\* the per-attempt timeout.
AckIn ==
    /\ pc = "wait"
    /\ \E m \in Inbound :
         /\ m.src_adr = conn.remote_adr
         /\ (is_syn(m) /\ out.packet_type = "SYN") => depth < MaxDepth
         /\ Resume(m)
         /\ event' = IF out.packet_type = "SYN" /\ ~is_ack_only(m)
                     THEN "redispatch" ELSE "response"
    /\ UNCHANGED chunkvars

\* send_until_ack_in: the per-attempt wait times out and the identical
\* message is transmitted again.
Retransmit ==
    /\ pc = "wait"
    /\ attempts < DEFAULT_RETRY_THRESHOLD
    /\ attempts' = attempts + 1
    /\ log' = <<>>
    /\ event' = "retransmit"
    /\ UNCHANGED <<conn, pc, message, out, pending, depth, raised, sent,
                   peer_acks, chunkvars>>

\* send_until_ack_in: the last attempt's wait times out; it returns None.
Exhausted ==
    /\ pc = "wait"
    /\ attempts = DEFAULT_RETRY_THRESHOLD
    /\ Resume(None)
    /\ event' = "exhausted"
    /\ UNCHANGED chunkvars

Init ==
    /\ conn = None
    /\ pc = "recv"
    /\ message = None
    /\ out = None
    /\ attempts = 0
    /\ pending = <<>>
    /\ depth = 0
    /\ raised = ""
    /\ log = <<>>
    /\ event = "init"
    /\ sent = <<>>
    /\ peer_acks = {}
    /\ f_in = <<>>
    /\ f_size = 1
    /\ f_out = <<>>
    /\ f_called = FALSE

Next == Receive \/ Timeout \/ AckIn \/ Retransmit \/ Exhausted

Spec == Init /\ [][Next]_vars

-----------------------------------------------------------------------------
(* Server._get_data_from_file on its own: every file of up to MaxFileLen   *)
(* bytes over a two-letter alphabet, every chunk size 1..MaxChunkSize.     *)

FileContents == UNION {[1..n -> 0..1] : n \in 0..MaxFileLen}

ChunkInit ==
    /\ conn = None
    /\ pc = "recv"
    /\ message = None
    /\ out = None
    /\ attempts = 0
    /\ pending = <<>>
    /\ depth = 0
    /\ raised = ""
    /\ log = <<>>
    /\ event = "init"
    /\ sent = <<>>
    /\ peer_acks = {}
    /\ f_in \in FileContents
    /\ f_size \in 1..MaxChunkSize
    /\ f_out = <<>>
    /\ f_called = FALSE

CallGetData ==
    /\ ~f_called
    /\ f_out' = _get_data_from_file(f_in, f_size)
    /\ f_called' = TRUE
    /\ UNCHANGED <<srv, f_in, f_size>>

ChunkNext == CallGetData

ChunkSpec == ChunkInit /\ [][ChunkNext]_vars


-----------------------------------------------------------------------------
(* Properties.                                                             *)

\* The latest step called _dispatch(message'): from _serve_loop, or again
\* from _dispatch with the answer to a SYN reply.
Dispatched == event' \in {"receive", "redispatch"}

\* C1: whenever the server is Connected and _dispatch receives a non-SYN
\* message from the connected peer whose seq_no is not last_index_received
\* + 1, the Connection is abandoned at once (conn is None, the server is back
\* at its receive), whatever the message's kind or payload, and nothing is
\* transmitted.
C1_BadSequenceAbandons ==
    [][ ( /\ Dispatched
          /\ conn # None
          /\ message'.src_adr = conn.remote_adr
          /\ message'.packet_type # "SYN"
          /\ message'.seq_no # conn.last_index_received + 1 )
        => ( /\ conn' = None
             /\ pc' = "recv"
             /\ raised' = ""
             /\ sent' = sent
             /\ log' = _abandon_connection("Bad sequence number") ) ]_vars

\* C1 happens: a FIN with a wrong sequence number, received from the peer
\* by the serve loop, has made the server abandon its Connection.
C1_Witness ==
    /\ event = "receive"
    /\ message.packet_type = "FIN"
    /\ log = _abandon_connection("Bad sequence number")
    /\ conn = None
    /\ pc = "recv"
    /\ Len(sent) = 1

\* C2: a SYN dispatched while the server is Idle creates a Connection bound
\* to the SYN's source address with last_index_received = SYN.seq_no; the
\* SYN reply carries ack_no = SYN.seq_no; the next expected inbound sequence
\* number is SYN.seq_no + 1; and when the reply is answered the server is
\* Connected with exactly that Connection (a bare acknowledgment leaves it
\* in place, any other answer is dispatched against it and is never dropped
\* for want of a connection).
C2_SynWhileIdleConnects ==
    [][ /\ ( Dispatched /\ conn = None /\ is_syn(message') )
           => ( /\ conn' # None
                /\ conn'.remote_adr = message'.src_adr
                /\ conn'.last_index_received = message'.seq_no
                /\ next_expected_index(conn') = message'.seq_no + 1
                /\ pc' = "wait"
                /\ out'.packet_type = "SYN"
                /\ out'.ack_no = message'.seq_no
                /\ sent' = <<out'>> )
        /\ ( pc = "wait" /\ out.packet_type = "SYN" /\ event' = "response" )
           => ( conn' = conn /\ conn' # None /\ pc' = "recv" )
        /\ ( pc = "wait" /\ out.packet_type = "SYN" /\ event' = "redispatch" )
           => ( /\ conn # None
                /\ log' # <<"Received non-SYN message without a connection">>
                /\ ( message'.packet_type = "APP"
                     /\ message'.seq_no = out.ack_no + 1 )
                   => ( /\ pc' = "wait"
                        /\ out'.packet_type = "APP"
                        /\ out'.ack_no = message'.seq_no ) ) ]_vars

\* C2 happens: the serve loop has received a SYN while Idle and the SYN reply
\* is on its way.
C2_Witness ==
    /\ event = "receive"
    /\ log = <<"Connection request (SYN)", "Using base sequence number">>
    /\ pc = "wait"
    /\ is_syn(message)
    /\ conn.remote_adr = message.src_adr
    /\ conn.last_index_received = message.seq_no
    /\ out.ack_no = message.seq_no

\* C3: for every outgoing message (SYN reply, APP chunk, FIN): when the
\* reliable-send primitive reports no acknowledgment after the retry
\* threshold, the server ends Idle (conn is None, back at its receive)
\* without sending anything, and as long as there is no Connection the only
\* message it ever sends is the SYN reply of a new Connection.
C3_NoAckEndsIdle ==
    [][ /\ ( event' = "exhausted" )
           => ( /\ conn' = None
                /\ pc' = "recv"
                /\ raised' = ""
                /\ sent' = sent )
        /\ ( conn = None /\ sent' # sent )
           => ( /\ is_syn(message')
                /\ conn' # None
                /\ sent' = <<out'>>
                /\ out'.packet_type = "SYN" ) ]_vars

\* C3 happens: the first of the two chunks of two.bin was never
\* acknowledged; the server is Idle and the second chunk was not sent.
C3_Witness ==
    /\ event = "exhausted"
    /\ conn = None
    /\ pc = "recv"
    /\ message.packet_type = "APP"
    /\ message.payload = "two.bin"
    /\ Len(sent) = 2
    /\ sent[2].packet_type = "APP"

\* C4: the top-level receive of _serve_loop times out only while a
\* Connection exists; when it does, the Connection is abandoned and the loop
\* is at its next receive: it has not terminated.
C4_TimeoutOnlyWhileConnected ==
    [][ ( event' = "timeout" )
        => ( /\ pc = "recv"
             /\ conn # None
             /\ conn' = None
             /\ pc' = "recv"
             /\ raised' = ""
             /\ sent' = sent ) ]_vars

\* C4 happens: the peer acknowledged the SYN reply and then sent nothing;
\* the receive timed out and the server is Idle, at its receive.
C4_Witness ==
    /\ event = "timeout"
    /\ log = _abandon_connection("Connection timeout expired")
    /\ conn = None
    /\ pc = "recv"
    /\ Len(sent) = 1


\* C5 (as claimed): at every moment at most one message the server has
\* transmitted is unacknowledged, a message with sequence number s being
\* acknowledged only once the peer has sent a message whose ack_no is s.
C5_StopAndWait ==
    Cardinality({i \in 1..Len(sent) : sent[i].seq_no \notin peer_acks}) <= 1

\* The server is answering the request `message`: it waits for the answer
\* to one of the request's replies or to the FIN, or that wait has just
\* ended.
Serving ==
    /\ message # None
    /\ message.packet_type = "APP"
    /\ pc = "wait" \/ event \in {"response", "exhausted"}

\* The file `message` asks for, and the number of full chunks in it.
ServedFile == FILES[message.payload]

ServedChunks == Len(ServedFile) \div CHUNK

\* C6: for an existing file of exactly k * (MAX_PAYLOAD_SIZE - HTTP_CODE_LEN)
\* bytes, k >= 1, the server transmits the k chunks in file order, each
\* behind the ok status, each only after the one before was answered, then
\* one FIN once the last chunk was answered; with every message answered
\* that is exactly k APP messages and one FIN, and no empty chunk.
C6_ExactMultipleOfChunk ==
    /\ [] ( ( /\ Serving
              /\ isfile(message.payload)
              /\ Len(ServedFile) >= CHUNK
              /\ Len(ServedFile) % CHUNK = 0 )
            => ( /\ Len(sent) \in 2..(ServedChunks + 2)
                 /\ sent[1].packet_type = "SYN"
                 /\ \A i \in 2..Len(sent) :
                      IF i <= ServedChunks + 1
                      THEN /\ sent[i].packet_type = "APP"
                           /\ sent[i].payload =
                                HTTP_OK_ENCODED \o
                                SubSeq(ServedFile, (i - 2) * CHUNK + 1,
                                       (i - 1) * CHUNK)
                      ELSE /\ sent[i].packet_type = "FIN"
                           /\ sent[i].payload = <<>>
                 /\ (event = "response" /\ pc = "recv")
                    => Len(sent) = ServedChunks + 2 ) )
    /\ [][ ( pc = "wait" /\ out.packet_type = "APP" /\ sent' # sent )
           => ( /\ event' = "response"
                /\ sent' = Append(sent, out')
                /\ attempts' = 1 ) ]_vars

\* C6 happens: two.bin, of twice the chunk size, was sent as two chunks and
\* a FIN, every one of them answered.
C6_Witness ==
    /\ Serving
    /\ message.payload = "two.bin"
    /\ event = "response"
    /\ pc = "recv"
    /\ Len(sent) = 4
    /\ sent[4].packet_type = "FIN"

\* C7: a session for a path that is no regular file.  After SYN(seq = c) the
\* server has replied SYN(seq = S0, ack = c); after APP(seq = c + 1) it
\* replies with exactly one APP(seq = S0 + 1, ack = c + 1) carrying the
\* not-found status; once that is answered it sends FIN(seq = S0 + 2,
\* ack = c + 1); and when the FIN is answered the server is Idle.
C7_MissingFileSession ==
    /\ [] ( ( Serving /\ ~isfile(message.payload) )
            => LET c  == message.seq_no - 1
                   S0 == sent[1].seq_no
               IN  /\ Len(sent) \in 2..3
                   /\ sent[1] = create_syn_message(S0, c)
                   /\ sent[2] = create_app_message(
                                    S0 + 1, c + 1, HTTP_FILE_NOT_FOUND_ENCODED)
                   /\ Len(sent) = 3
                      => sent[3] = create_fin_message(S0 + 2, c + 1)
                   /\ (event = "response" /\ pc = "recv")
                      => (Len(sent) = 3 /\ conn = None) )
    /\ [][ /\ ( /\ pc = "wait"
                /\ out.payload = HTTP_FILE_NOT_FOUND_ENCODED
                /\ event' = "response" )
              => ( /\ pc' = "wait"
                   /\ out'.packet_type = "FIN"
                   /\ sent' = Append(sent, out') )
           /\ ( pc = "wait" /\ out.packet_type = "FIN"
                /\ event' = "response" )
              => ( conn' = None /\ pc' = "recv" /\ sent' = sent ) ]_vars

\* C7 happens: the request for missing.txt got the not-found reply and the
\* FIN, the peer answered the FIN with a FIN, and the server is Idle.
C7_Witness ==
    /\ Serving
    /\ message.payload = "missing.txt"
    /\ event = "response"
    /\ pc = "recv"
    /\ conn = None
    /\ Len(sent) = 3
    /\ log = <<"Received FIN_ACK message. Disconnecting">>

\* What C8 says of a SYN: the Connection is a fresh one, made from the SYN's
\* source address and sequence number, its send sequence counter at a base
\* value (one past it once the SYN reply has taken the base), and the SYN
\* reply is the first message of the new Connection.
ReplacedBy(syn) ==
    /\ conn' # None
    /\ conn'.remote_adr = syn.src_adr
    /\ conn'.last_index_received = syn.seq_no
    /\ pc' = "wait"
    /\ out' = create_syn_message(conn'.seq - 1, syn.seq_no)
    /\ out'.seq_no \in 0..MaxBaseSeq
    /\ sent' = <<out'>>

\* C8 (as claimed): whenever a SYN is received while a Connection exists,
\* whatever the SYN's source address, the Connection is replaced by a fresh
\* one made from the SYN.
C8_AnySynReplaces ==
    [][ ( Dispatched /\ conn # None /\ is_syn(message') )
        => ReplacedBy(message') ]_vars

\* C8 (amended): whenever a SYN is received from the Connection's own remote
\* address while that Connection exists, the Connection is replaced by a
\* fresh one made from the SYN; a SYN from any other address does not
\* replace it.
C8_PeerSynReplaces ==
    [][ /\ ( /\ Dispatched
             /\ conn # None
             /\ is_syn(message')
             /\ message'.src_adr = conn.remote_adr )
           => ReplacedBy(message')
        /\ ( /\ Dispatched
             /\ conn # None
             /\ is_syn(message')
             /\ message'.src_adr # conn.remote_adr )
           => conn' = conn ]_vars

\* C8 happens: the connected peer answered the SYN reply with another SYN,
\* and the Connection is a fresh one made from that SYN.
C8_Witness ==
    /\ event = "redispatch"
    /\ log = <<"Received SYN message from already connected client",
               "Using base sequence number">>
    /\ pc = "wait"
    /\ depth = 1
    /\ conn.last_index_received = message.seq_no
    /\ sent = <<out>>

\* C9 (as claimed): no event terminates the server: _serve_loop never exits
\* and never raises.
C9_NeverTerminates == pc # "exited" /\ raised = ""

\* Concatenation of a list of chunks.
RECURSIVE Join(_)
Join(chunks) ==
    IF chunks = <<>> THEN <<>> ELSE Head(chunks) \o Join(Tail(chunks))

\* C10: for every file content and every chunk_size >= 1,
\* _get_data_from_file returns a non-empty list of chunks whose
\* concatenation is the content, every chunk is at most chunk_size long, and
\* the empty file gives exactly one empty chunk.
C10_ChunksRebuildFile ==
    f_called
    => ( /\ Len(f_out) >= 1
         /\ Join(f_out) = f_in
         /\ \A i \in 1..Len(f_out) : Len(f_out[i]) <= f_size
         /\ f_in = <<>> => f_out = << <<>> >> )

\* C10 happens: a file of three bytes was split with chunk_size 2 into a
\* full chunk and a short one.
C10_Witness ==
    /\ f_called
    /\ f_size = 2
    /\ Len(f_in) = 3
    /\ Len(f_out) = 2
    /\ Len(f_out[2]) = 1


\* C11 (as claimed): while Connected, a message of any kind, SYN included,
\* whose source address is not the Connection's remote address is dropped:
\* the Connection is unchanged, the server stays Connected at its receive,
\* and nothing is transmitted.
C11_ForeignMessageDropped ==
    [][ ( /\ Dispatched
          /\ conn # None
          /\ message'.src_adr # conn.remote_adr )
        => ( /\ conn' = conn
             /\ pc' = "recv"
             /\ raised' = ""
             /\ sent' = sent ) ]_vars

\* C12: while Idle, every non-SYN message (APP, FIN, bare ACK, any sequence
\* number) is dropped: the server stays Idle at its receive, no Connection
\* is made and nothing is transmitted; so without a Connection the server
\* transmits only when a SYN arrives, and then the SYN reply.
C12_NonSynWhileIdleDropped ==
    [][ /\ ( Dispatched /\ conn = None /\ ~is_syn(message') )
           => ( /\ conn' = None
                /\ pc' = "recv"
                /\ raised' = ""
                /\ out' = None
                /\ sent' = sent
                /\ log' = <<"Received non-SYN message without a connection">> )
        /\ ( conn = None /\ pc = "recv" /\ (sent' # sent \/ pc' = "wait") )
           => ( event' = "receive" /\ is_syn(message')
                /\ out'.packet_type = "SYN" ) ]_vars

\* C12 happens: after a Connection was lost to a wrong sequence number and
\* the server was Idle, a well-numbered APP arrived and was dropped.
C12_Witness ==
    /\ event = "receive"
    /\ message.packet_type = "APP"
    /\ message.seq_no = 1
    /\ log = <<"Received non-SYN message without a connection">>
    /\ conn = None
    /\ pc = "recv"
    /\ Len(sent) = 1
    /\ sent[1].ack_no = 0


\* C13: _close_connection, called with a Connection present, sends one FIN
\* whose sequence number is the next unused send sequence number and whose
\* ack number is last_index_received; and whatever ends the wait for its
\* answer (no answer within the retry budget, an answer that is no FIN, a
\* FIN), the server is then Idle.
C13_CloseAlwaysEndsIdle ==
    [][ /\ ( pc' = "wait" /\ out'.packet_type = "FIN" /\ sent' # sent )
           => ( /\ conn # None
                /\ out' = create_fin_message(conn.seq,
                                             conn.last_index_received)
                /\ out'.seq_no = sent[Len(sent)].seq_no + 1
                /\ \A i \in 1..Len(sent) : sent[i].seq_no # out'.seq_no
                /\ sent' = Append(sent, out')
                /\ attempts' = 1 )
        /\ ( pc = "wait" /\ out.packet_type = "FIN" /\ pc' # "wait" )
           => ( /\ event' \in {"response", "exhausted"}
                /\ conn' = None
                /\ pc' = "recv"
                /\ raised' = ""
                /\ sent' = sent ) ]_vars

\* C13 happens: the FIN was answered by a message that is no FIN, and the
\* server is Idle.
C13_Witness ==
    /\ event = "response"
    /\ log = <<"FIN message ACK was not itself a FIN message">>
    /\ sent[Len(sent)].packet_type = "FIN"
    /\ conn = None
    /\ pc = "recv"

\* C14: when the wait for the answer to a reply of a file transfer (chunk i,
\* or the not-found reply) fails, _process_get_request stops: the server is
\* Idle, no chunk after i and no FIN is sent, and the next message the
\* server sends is the SYN reply of another Connection.
C14_LostChunkStopsTransfer ==
    [][ /\ ( pc = "wait" /\ out.packet_type = "APP" /\ event' = "exhausted" )
           => ( /\ conn' = None
                /\ pc' = "recv"
                /\ raised' = ""
                /\ sent' = sent
                /\ sent'[Len(sent')] = out )
        /\ ( /\ event = "exhausted"
             /\ sent[Len(sent)].packet_type = "APP"
             /\ sent' # sent )
           => ( Len(sent') = 1 /\ sent'[1].packet_type = "SYN" ) ]_vars

\* C14 happens: the second of the two chunks of two.bin was never answered;
\* the server is Idle and no FIN was sent.
C14_Witness ==
    /\ event = "exhausted"
    /\ message.payload = "two.bin"
    /\ Len(sent) = 3
    /\ sent[3].packet_type = "APP"
    /\ conn = None
    /\ pc = "recv"


\* C15: the answer to a SYN reply is dispatched again exactly when there is
\* one and it is no bare ACK.  A bare ACK is consumed: the server is
\* Connected with the fresh Connection and back at its receive, and nothing
\* is sent or logged.  No answer: nothing is dispatched.  A dispatched answer
\* is handled by the rules of _dispatch in their order: a SYN replaces the
\* Connection, a wrong sequence number abandons it, an APP is served as a
\* request, anything else is logged and left alone.
C15_AnswerToSynReply ==
    [][ ( pc = "wait" /\ out.packet_type = "SYN" /\ pc' # "exited" ) =>
        /\ event' = "response"
           => ( /\ message' = message
                /\ conn' = conn
                /\ conn' # None
                /\ pc' = "recv"
                /\ depth' = 0
                /\ sent' = sent
                /\ log' = <<>> )
        /\ event' = "exhausted"
           => ( message' = message /\ conn' = None /\ sent' = sent )
        /\ event' = "redispatch"
           => ( /\ ~is_ack_only(message')
                /\ message'.src_adr = conn.remote_adr
                /\ IF is_syn(message')
                   THEN /\ conn'.last_index_received = message'.seq_no
                        /\ pc' = "wait"
                        /\ depth' = depth + 1
                        /\ out'.packet_type = "SYN"
                        /\ sent' = <<out'>>
                   ELSE IF message'.seq_no # conn.last_index_received + 1
                   THEN /\ conn' = None
                        /\ pc' = "recv"
                        /\ sent' = sent
                        /\ log' = _abandon_connection("Bad sequence number")
                   ELSE IF message'.packet_type = "APP"
                   THEN /\ pc' = "wait"
                        /\ out'.packet_type = "APP"
                        /\ out'.seq_no = out.seq_no + 1
                        /\ conn'.last_index_received = message'.seq_no
                        /\ sent' = Append(sent, out')
                   ELSE /\ conn' = conn
                        /\ pc' = "recv"
                        /\ sent' = sent
                        /\ log' = <<"Failed to dispatch message">> ) ]_vars

\* C15 happens: the SYN reply was answered by a FIN with the expected
\* sequence number; it was dispatched again, logged and left alone, and the
\* server is Connected.
C15_Witness ==
    /\ event = "redispatch"
    /\ message.packet_type = "FIN"
    /\ log = <<"Failed to dispatch message">>
    /\ conn # None
    /\ message.seq_no = conn.last_index_received + 1
    /\ pc = "recv"


\* C16: the send sequence counter advances exactly once for each distinct
\* outgoing message and never for a retransmission: the messages of one
\* Connection (SYN reply first, then APP replies, then FIN) carry S0, S0 + 1,
\* S0 + 2, ... with S0 the Connection's base sequence number, the counter is
\* one past the last of them, and a retransmission is the message sent
\* before, with the counter where it was.
C16_SeqAdvancesOncePerMessage ==
    /\ [] ( /\ \A i \in 1..Len(sent) :
                 sent[i].seq_no = sent[1].seq_no + (i - 1)
            /\ sent # <<>> => ( /\ sent[1].packet_type = "SYN"
                                /\ sent[1].seq_no \in 0..MaxBaseSeq )
            /\ conn # None => conn.seq = sent[Len(sent)].seq_no + 1
            /\ pc = "wait" => out = sent[Len(sent)] )
    /\ [][ event' = "retransmit"
           => ( /\ out' = out
                /\ conn' = conn
                /\ sent' = sent
                /\ pc' = "wait"
                /\ attempts' = attempts + 1 ) ]_vars

\* C16 happens: the FIN, third message of its Connection, has just been
\* retransmitted.
C16_Witness ==
    /\ event = "retransmit"
    /\ Len(sent) = 3
    /\ out.packet_type = "FIN"
    /\ out.seq_no = sent[1].seq_no + 2
    /\ attempts = 2


\* C17: at most one request is served per Connection.  The expected inbound
\* sequence number of a Connection is the SYN's or one more; a Connection
\* the server holds at its receive has served no request; a request is
\* taken only by a Connection that has sent its SYN reply and nothing else;
\* and every way out of _process_get_request (an acknowledgment wait
\* failed, or the FIN was sent and its wait ended) leaves the server Idle.
C17_OneRequestPerConnection ==
    /\ [] ( conn # None =>
              /\ conn.last_index_received
                   \in {sent[1].ack_no, sent[1].ack_no + 1}
              /\ pc = "recv" => ( /\ conn.last_index_received = sent[1].ack_no
                                  /\ Len(sent) = 1 ) )
    /\ [][ /\ ( pc' = "wait" /\ out'.packet_type = "APP"
                /\ conn'.last_index_received # conn.last_index_received )
              => ( /\ Dispatched
                   /\ message'.packet_type = "APP"
                   /\ Len(sent) = 1
                   /\ conn.last_index_received = sent[1].ack_no
                   /\ conn'.last_index_received = sent[1].ack_no + 1 )
           /\ ( pc = "wait" /\ out.packet_type \in {"APP", "FIN"}
                /\ pc' # "wait" )
              => ( conn' = None /\ pc' = "recv" /\ raised' = "" ) ]_vars

\* C17 happens: the request for odd.bin was served to its end, the FIN was
\* answered by a FIN, and the server is Idle.
C17_Witness ==
    /\ event = "response"
    /\ message.payload = "odd.bin"
    /\ log = <<"Received FIN_ACK message. Disconnecting">>
    /\ sent[Len(sent)].packet_type = "FIN"
    /\ conn = None
    /\ pc = "recv"


C19_AtMostOneReplay == depth <= 1

\* C20: no assertion of the server fails and no attribute of a missing
\* Connection is read.  A SYN that reaches _receive_connection while there
\* is a Connection is from its remote address; _process_get_request runs
\* with a Connection; and there is a Connection, the one the message is
\* addressed to, at every send.
C20_AssertionsHold ==
    /\ [] ( /\ raised \notin {"AssertionError", NoneTypeError}
            /\ pc = "wait" => conn # None )
    /\ [][ /\ ( pc' = "wait" /\ out'.packet_type = "SYN" /\ sent' # sent
                /\ conn # None )
              => ( /\ is_syn(message')
                   /\ conn.remote_adr = message'.src_adr
                   /\ conn'.remote_adr = message'.src_adr )
           /\ ( pc' = "wait" /\ out'.packet_type = "APP" /\ sent' # sent )
              => conn # None ]_vars

\* C20 happens: the answer to a SYN reply was a SYN of the same peer; it
\* reached _receive_connection with a Connection present and passed its
\* assertions.
C20_Witness ==
    /\ event = "redispatch"
    /\ log = << "Received SYN message from already connected client",
                "Using base sequence number" >>
    /\ raised = ""
    /\ pc = "wait"
    /\ conn.remote_adr = message.src_adr

=============================================================================
